---- MODULE Spec2Model ----
(***************************************************************************)
(* The generation wizard of frontend/src/pages (component Create): the     *)
(* step state machine, the asynchronous job submission / poll lifecycle,   *)
(* the status ticker and the candidate store.                              *)
(*                                                                         *)
(* Every call of handleGenerate is one "session" k = 1, 2, ...  Its        *)
(* closure owns statusInterval, sIdx, pollInterval and jobId; these are    *)
(* the per-session functions tickActive, sIdx, pollActive and pc below.    *)
(* A poll request is an async callback: the tick sends GET /jobs/{id} and  *)
(* the continuation runs when the response arrives, so several requests of *)
(* one session can be awaiting their response at the same time.            *)
(***************************************************************************)
EXTENDS Integers, Sequences, FiniteSets, TLC

\* ---------------------------------------------------------------- bounds
MaxJobs == 2        \* calls of handleGenerate in one run
MaxPolls == 2       \* GET /jobs/{id} requests sent in one run
MaxTicks == 1       \* label advances of the status tickers in one run
MaxEdits == 1       \* edits of the room list in one run
MaxDrawn == 2       \* length of the room lists validateStep1 is tried on
MaxTime == 9        \* seconds the timed runs last
MaxLabels == 5      \* label advances of the tickers in a run of long generations
MaxSessions == 3    \* calls of handleGenerate in a run of repeated generations

Jobs == 1..MaxSessions

\* ------------------------------------------------------------- constants
NullId == -1                    \* selectedCandidateId = null
Null == "null"                  \* null of the string-valued state
ApiUrl == "http://api"          \* import.meta.env.VITE_API_URL
TickEvery == 3                  \* statusInterval: 3000 ms, in seconds
PollEvery == 2                  \* pollInterval: 2000 ms, in seconds

\* Pointing devices, and the value of a pointer that is over no room element.
Pointers == {"mouse", "touch"}
NoElement == << "none", NullId >>

\* Room ids of a layout spec, and the elements that carry hover handlers:
\* the hit-test mesh, the chart segment and the legend row of every room.
LayoutRooms == {0, 1}
Elements == {"mesh", "pie", "legend"} \X LayoutRooms

statuses ==
  << "Analyzing constraints...", "Generating adjacency graphs...",
     "Optimizing layouts...", "Rendering 3D Models...", "Finalizing Details..." >>

ErrConnect == "Failed to connect to server. Ensure Backend is running."
ErrStart == "Failed to start generation"
ErrProcessing == "Generation failed during processing."
MsgText == "Please provide a more detailed text description of your desired rooms."
MsgConflict == "Conflict: Total room area significantly exceeds the total house boundary."

\* Error strings the server may put in a response; "" is an absent one.
ServerErrors == {"", "quota exceeded"}

\* ----------------------------------------------------- candidate payloads
Cand(i, url, sc) ==
  [id |-> i, model_url |-> url, score |-> sc,
   spec |-> "spec:" \o url, layout |-> "rooms:" \o url, stats |-> "stats:" \o url]

ResEmpty == [model_url |-> "/a1.ply", candidates |-> << >>]
ResMatch ==
  [model_url |-> "/a1.ply",
   candidates |-> << Cand(0, "/a0.ply", 71), Cand(1, "/a1.ply", 88), Cand(2, "/a2.ply", 64) >>]
ResNoMatch ==
  [model_url |-> "/zz.ply",
   candidates |-> << Cand(0, "/b0.ply", 55), Cand(1, "/b1.ply", 93) >>]

Results == {ResEmpty, ResMatch, ResNoMatch}
NoResult == [model_url |-> Null, candidates |-> << >>]

\* ------------------------------------------------------------ wizard input
\* A room area is a JS number: Number(e.target.value) of a number input may
\* have a fractional part.  Areas are counted in tenths: Dec(0, 5) is 0.5.
Dec(whole, tenth) == whole * 10 + tenth

InitialRooms ==
  << [id |-> 1, type |-> "living", area |-> Dec(300, 0)],
     [id |-> 2, type |-> "bedroom", area |-> Dec(150, 0)],
     [id |-> 3, type |-> "bathroom", area |-> Dec(50, 0)],
     [id |-> 4, type |-> "kitchen", area |-> Dec(120, 0)] >>

\* What handleAddRoom appends; id is Date.now().
NewRoom(stamp) == [id |-> stamp, type |-> "bedroom", area |-> Dec(100, 0)]

\* Date.now() of successive clicks (abbreviated time stamps).
Stamps == {1001, 1002}

\* Values the user may give a room: a type of the select, an area typed in.
TypeChoices == {"study"}
AreaChoices == {Dec(0, 0), Dec(0, 5), Dec(300, 0), Dec(550, 0), Dec(551, 0)}

\* Texts the user may type: sequences of characters.
TextChoices ==
  { << >>,
    << " ", "2", " ", "b", "e", "d", "s", " ", " ", " ", " " >>,
    << " ", "n", "i", "n", "e", " ", "b", "e", "d", "s", " " >>,
    << "t", "e", "n", " ", "b", "e", "d", "s", " ", "!" >>,
    << "t", "w", "o", " ", "b", "e", "d", "r", "o", "o", "m", "s" >> }

TotalChoices == {500, 1000}

\* Room lists validateStep1 is tried on: the first rooms of the initial list
\* with areas typed in.
RoomLists ==
  { [i \in 1..n |-> [InitialRooms[i] EXCEPT !.area = as[i]]] :
      n \in 0..MaxDrawn, as \in [1..MaxDrawn -> AreaChoices] }

VARIABLES
  step, rooms, inputMode, unit, textPrompt, totalAreaConstraint, validationError,
  loading, generationStatus, modelUrl, layoutSpec, layoutData, score, stats,
  error, candidates, selectedCandidateId,
  mounted,
  nJobs, pc, tickActive, sIdx, pollActive, inflight, getCount, postCount,
  srvStatus, srvResult, srvError,
  handled, firstTerminalPoll, discarded, errs, edits,
  now, pollBase,
  hoveredRoomId, pointerOn,
  prompt, posted,    \* per session: compiledPrompt held by the closure until its
                     \* POST is issued, and the body of its POST in flight
  polygons, highlightMesh, roomMeshes, camera, framedUrl

inputVars == << rooms, inputMode, unit, textPrompt, totalAreaConstraint >>
storeVars == << modelUrl, layoutSpec, layoutData, score, stats, candidates, selectedCandidateId >>
timerVars == << tickActive, sIdx, pollActive >>
netVars == << inflight, getCount, postCount >>
srvVars == << srvStatus, srvResult, srvError >>
histVars == << handled, firstTerminalPoll, discarded, errs, edits >>
timeVars == << now, pollBase >>
hoverVars == << hoveredRoomId, pointerOn >>
reqVars == << prompt, posted >>
sceneVars == << polygons, highlightMesh, roomMeshes, camera, framedUrl >>

vars ==
  << step, rooms, inputMode, unit, textPrompt, totalAreaConstraint, validationError,
     loading, generationStatus, modelUrl, layoutSpec, layoutData, score, stats,
     error, candidates, selectedCandidateId, mounted,
     nJobs, pc, tickActive, sIdx, pollActive, inflight, getCount, postCount,
     srvStatus, srvResult, srvError, handled, firstTerminalPoll, discarded, errs, edits,
     now, pollBase, hoveredRoomId, pointerOn, prompt, posted,
     polygons, highlightMesh, roomMeshes, camera, framedUrl >>

\* ------------------------------------------------------------ pure helpers
RECURSIVE TrimLeft(_)
TrimLeft(s) == IF s # << >> /\ Head(s) = " " THEN TrimLeft(Tail(s)) ELSE s

RECURSIVE TrimRight(_)
TrimRight(s) ==
  IF s # << >> /\ s[Len(s)] = " " THEN TrimRight(SubSeq(s, 1, Len(s) - 1)) ELSE s

Trim(s) == TrimRight(TrimLeft(s))

RECURSIVE Total(_, _)
Total(f, n) == IF n = 0 THEN 0 ELSE f[n] + Total(f, n - 1)

\* parseInt of a number: its integer part (truncation toward zero).
ParseInt(x) == IF x >= 0 THEN x \div 10 ELSE - ((- x) \div 10)

\* rooms.reduce((acc, r) => acc + parseInt(r.area || 0), 0), in whole units.
RECURSIVE SumAreas(_)
SumAreas(rs) == IF rs = << >> THEN 0 ELSE ParseInt(Head(rs).area) + SumAreas(Tail(rs))

\* validateStep1's verdict: totalRoomArea > totalAreaConstraint * 1.1 fails.
\* Both sides are whole numbers here, for which the double product decides
\* as the exact one does.
ValidateOk ==
  IF inputMode = "text"
    THEN Len(Trim(textPrompt)) >= 10
    ELSE ~ (SumAreas(rooms) * 10 > totalAreaConstraint * 11)

ValidateMessage ==
  IF ValidateOk THEN "" ELSE IF inputMode = "text" THEN MsgText ELSE MsgConflict

\* result.candidates.find(c => c.model_url === result.model_url): the index of
\* the first match, 0 when there is none (undefined).
FindIndex(cands, url) ==
  IF \E i \in 1..Len(cands) : cands[i].model_url = url
    THEN CHOOSE i \in 1..Len(cands) :
           /\ cands[i].model_url = url
           /\ \A j \in 1..(i - 1) : cands[j].model_url # url
    ELSE 0

\* The first candidate whatever the winner URL; 0 stands for undefined.
FirstIndex(result) == IF Len(result.candidates) > 0 THEN 1 ELSE 0

\* find(...) || result.candidates[0]; 0 stands for undefined.
BestIndex(result) ==
  IF FindIndex(result.candidates, result.model_url) # 0
    THEN FindIndex(result.candidates, result.model_url)
    ELSE IF Len(result.candidates) > 0 THEN 1 ELSE 0

\* value || fallback, as in jobRes.data.error || "Generation failed during processing."
NoFallback(value, fallback) == value

OrElse(value, fallback) == IF value = "" \/ value = Null THEN fallback ELSE value

\* ------------------------------------------------- derived from the input
\* String(x) of a JS number: a room area is counted in tenths (0.5 prints
\* "0.5", 300 prints "300"), the total area is a whole number.
NumText(x) ==
  IF x % 10 = 0 THEN ToString(x \div 10)
  ELSE ToString(x \div 10) \o "." \o ToString(x % 10)

\* Array.prototype.join on pieces of text.
RECURSIVE Join(_, _)
Join(parts, sep) ==
  IF parts = << >> THEN << >>
  ELSE IF Len(parts) = 1 THEN parts[1]
  ELSE parts[1] \o sep \o Join(Tail(parts), sep)

\* Every room of the sentence without its unit suffix.
RoomPhraseNoUnit(r, u) == << "a ", NumText(r.area), " ", r.type, " room" >>

\* `a ${r.area} sq${unit} ${r.type} room`: the literal pieces and the
\* interpolated values, in order.
RoomPhrase(r, u) == << "a ", NumText(r.area), " sq", u, " ", r.type, " room" >>

\* The compiled prompt as the pieces of its template literal; in text mode
\* it is the text itself, character by character.
compile(mode, text, list, total, u) ==
  IF mode = "text"
    THEN text
    ELSE << "A house with a total area of around ", ToString(total), " sq", u,
            ". It includes: " >>
         \o Join([i \in 1..Len(list) |-> RoomPhrase(list[i], u)], << ", " >>)
         \o << "." >>

compiledPrompt == compile(inputMode, textPrompt, rooms, totalAreaConstraint, unit)

\* The area chart of step 1.
palette == << "#10b981", "#6366f1", "#f59e0b", "#ec4899", "#8b5cf6", "#ef4444" >>

totalRoomArea == SumAreas(rooms)

unusedArea ==
  IF totalAreaConstraint - totalRoomArea > 0 THEN totalAreaConstraint - totalRoomArea ELSE 0

pieData ==
  [i \in 1..Len(rooms) |->
     [name |-> rooms[i].type, value |-> ParseInt(rooms[i].area),
      color |-> palette[((i - 1) % Len(palette)) + 1]]]
  \o (IF unusedArea > 0
        THEN << [name |-> "Unallocated", value |-> unusedArea, color |-> "#f5f5f4"] >>
        ELSE << >>)

\* No prompt: the value of a session that has compiled or posted none.
NoPrompt == << Null >>

\* ---------------------------------------------------------------- geometry
\* JS values of polygon data: undefined, a number, an array, and the two
\* infinities the bounding boxes start from.  Threw is the outcome of an
\* expression that raises TypeError.
Undef == [t |-> "undefined", n |-> 0, a |-> << >>]
Num(x) == [t |-> "number", n |-> x, a |-> << >>]
Arr(s) == [t |-> "array", n |-> 0, a |-> s]
PosInfinity == [t |-> "Infinity", n |-> 0, a |-> << >>]
NegInfinity == [t |-> "-Infinity", n |-> 0, a |-> << >>]
Threw == [t |-> "TypeError", n |-> 0, a |-> << >>]

isArray(v) == v.t = "array"

\* v[i]: reading a property of undefined raises TypeError, an index past the
\* end of an array and any index of a number give undefined.
At(v, i) ==
  IF v.t \in {"undefined", "TypeError"} THEN Threw
  ELSE IF isArray(v) /\ i < Len(v.a) THEN v.a[i + 1]
  ELSE Undef

\* a < b on JS values: undefined and a pair of numbers convert to NaN, which
\* compares false with everything.
Lt(a, b) ==
  /\ a.t \in {"number", "Infinity", "-Infinity"}
  /\ b.t \in {"number", "Infinity", "-Infinity"}
  /\ \/ a.t = "-Infinity" /\ b.t # "-Infinity"
     \/ b.t = "Infinity" /\ a.t # "Infinity"
     \/ a.t = "number" /\ b.t = "number" /\ a.n < b.n

\* A point and a ring of points.
Pt(x, y) == Arr(<< Num(x), Num(y) >>)
Ring(points) == Arr(points)

\* A polygon of the polygon map: absent (layoutData[id] is undefined), or an
\* object whose coordinates field is a JS value.
Absent == [present |-> FALSE, coordinates |-> Undef]
Polygon(coords) == [present |-> TRUE, coordinates |-> coords]

Square == Ring(<< Pt(0, 0), Pt(1, 0), Pt(1, 1), Pt(0, 1) >>)
Wedge == Ring(<< Pt(0, 0), Pt(2, 1), Pt(1, 2) >>)
Closed == Ring(<< Pt(3, 4), Pt(1, 4), Pt(1, 1), Pt(3, 4) >>)
Hole == Ring(<< Pt(5, 5), Pt(6, 5), Pt(6, 6) >>)

\* Polygons a layout may carry: well-formed flat and nested ones, and the
\* degenerate ones (no coordinates, no point, a nested list holding an
\* empty ring, a single point).
PolyChoices ==
  { Absent,
    Polygon(Undef),
    Polygon(Arr(<< >>)),
    Polygon(Arr(<< Arr(<< >>) >>)),
    Polygon(Ring(<< Pt(1, 2) >>)),
    Polygon(Square),
    Polygon(Arr(<< Square >>)),
    Polygon(Wedge),
    Polygon(Arr(<< Wedge, Hole >>)),
    Polygon(Closed) }

\* RoomHighlight: let coords = roomPoly.coordinates;
\* if (Array.isArray(coords[0]) && Array.isArray(coords[0][0])) coords = coords[0];
HighlightRing(roomPoly) ==
  LET coords == roomPoly.coordinates IN
    IF At(coords, 0) = Threw THEN Threw
    ELSE IF isArray(At(coords, 0)) /\ isArray(At(At(coords, 0), 0)) THEN At(coords, 0)
    ELSE coords

\* InteractiveRoom: the same two lines.
HitTestRing(roomPoly) ==
  LET coords == roomPoly.coordinates IN
    IF At(coords, 0) = Threw THEN Threw
    ELSE IF isArray(At(coords, 0)) /\ isArray(At(At(coords, 0), 0)) THEN At(coords, 0)
    ELSE coords

\* computeRoomDimensions: the same two lines on poly.
DimensionsRing(poly) ==
  LET coords == poly.coordinates IN
    IF At(coords, 0) = Threw THEN Threw
    ELSE IF isArray(At(coords, 0)) /\ isArray(At(At(coords, 0), 0)) THEN At(coords, 0)
    ELSE coords

\* shape.moveTo(coords[0][0], coords[0][1]) and the lineTo of every later
\* point, under if (coords && coords.length > 0): the path of the shape.
PathOf(coords) ==
  IF isArray(coords) /\ Len(coords.a) > 0
    THEN [i \in 1..Len(coords.a) |-> << At(coords.a[i], 0), At(coords.a[i], 1) >>]
    ELSE << >>

\* let minX = Infinity, maxX = -Infinity, minY = Infinity, maxY = -Infinity
EmptyBox ==
  [minX |-> PosInfinity, maxX |-> NegInfinity, minY |-> PosInfinity, maxY |-> NegInfinity]

\* The four comparisons of one point.
Widen(box, px, py) ==
  [minX |-> IF Lt(px, box.minX) THEN px ELSE box.minX,
   maxX |-> IF Lt(box.maxX, px) THEN px ELSE box.maxX,
   minY |-> IF Lt(py, box.minY) THEN py ELSE box.minY,
   maxY |-> IF Lt(box.maxY, py) THEN py ELSE box.maxY]

\* The points i, i + 1, ... of the ring scanned into box (i counts from 1).
RECURSIVE ScanFrom(_, _, _)
ScanFrom(points, i, box) ==
  IF i > Len(points) THEN box
  ELSE ScanFrom(points, i + 1, Widen(box, At(points[i], 0), At(points[i], 1)))

\* InteractiveRoom: for (let i = 1; i < coords.length; i++) { ... } inside
\* if (coords && coords.length > 0); coords[0] is the moveTo point.
HitTestBox(coords) == IF isArray(coords) THEN ScanFrom(coords.a, 2, EmptyBox) ELSE EmptyBox

\* computeRoomDimensions: for (let p of coords) { ... }
DimensionsBox(coords) == IF isArray(coords) THEN ScanFrom(coords.a, 1, EmptyBox) ELSE EmptyBox

\* const [px, py] = coords[i] raises TypeError when coords[i] is no array.
Destructures(coords) ==
  isArray(coords) => \A i \in 2..Len(coords.a) : isArray(coords.a[i])

\* minX !== Infinity ? (minX + maxX) / 2 : 0, in tenths.
Middle(lo, hi) == IF lo.t = "number" /\ hi.t = "number" THEN 5 * (lo.n + hi.n) ELSE 0

\* x.toFixed(1) of a length counted in tenths.
Fixed1(tenths) == ToString(tenths \div 10) \o "." \o ToString(tenths % 10)

Abs(x) == IF x < 0 THEN - x ELSE x

\* Math.abs(hi - lo).toFixed(1) and (Math.abs(hi - lo) * 3.28084).toFixed(1).
Metres(lo, hi) ==
  IF lo.t = "number" /\ hi.t = "number" THEN Fixed1(10 * Abs(hi.n - lo.n)) ELSE "Infinity"
Feet(lo, hi) ==
  IF lo.t = "number" /\ hi.t = "number"
    THEN Fixed1((Abs(hi.n - lo.n) * 328084 + 5000) \div 10000)
    ELSE "Infinity"

\* Outcomes of computeRoomDimensions: null, a raised TypeError, or the
\* metric and imperial sizes.
NoDims == [kind |-> "null", m |-> << >>, ft |-> << >>]
DimsThrew == [kind |-> "TypeError", m |-> << >>, ft |-> << >>]

computeRoomDimensions(data, roomId) ==
  LET poly == data[roomId] IN
    IF ~ poly.present THEN NoDims
    ELSE LET coords == DimensionsRing(poly)
             box == DimensionsBox(coords)
         IN IF coords = Threw \/ coords.t = "number" THEN DimsThrew
            ELSE IF Len(coords.a) = 0 THEN NoDims
            ELSE [kind |-> "dims",
                  m |-> << Metres(box.minX, box.maxX), Metres(box.minY, box.maxY) >>,
                  ft |-> << Feet(box.minX, box.maxX), Feet(box.minY, box.maxY) >>]

\* Outcomes of the RoomHighlight component: not rendered yet, null, a raised
\* TypeError, or a mesh extruded from the path.
NoHighlight(kind) == [kind |-> kind, path |-> << >>]

RoomHighlightMesh(roomPoly) ==
  IF ~ roomPoly.present THEN NoHighlight("null")
  ELSE LET coords == HighlightRing(roomPoly) IN
         IF coords = Threw THEN NoHighlight("TypeError")
         ELSE [kind |-> "mesh", path |-> PathOf(coords)]

\* Outcomes of the InteractiveRoom component, likewise, with the tooltip
\* anchor (cx, cy) and the dimensions the tooltip shows.
NoRoom(kind) == [kind |-> kind, path |-> << >>, cx |-> 0, cy |-> 0, dims |-> NoDims]

InteractiveRoom(data, roomId) ==
  LET roomPoly == data[roomId] IN
    IF ~ roomPoly.present THEN NoRoom("null")
    ELSE LET coords == HitTestRing(roomPoly)
             box == HitTestBox(coords)
             dims == computeRoomDimensions(data, roomId)
         IN IF coords = Threw \/ ~ Destructures(coords) \/ dims.kind = "TypeError"
              THEN NoRoom("TypeError")
              ELSE [kind |-> "mesh", path |-> PathOf(coords),
                    cx |-> Middle(box.minX, box.maxX), cy |-> Middle(box.minY, box.maxY),
                    dims |-> dims]

\* ----------------------------------------------------------------- camera
\* <Canvas camera={{ position: [20, 30, 20], fov: 45, far: 10000 }}>;
\* lengths of the scene are counted in hundredths.
CameraFov == 45
InitialCamera == [position |-> << 2000, 3000, 2000 >>, target |-> << 0, 0, 0 >>]

\* Math.tan(fov / 2) of a field of view in degrees, times 100000.
TanHalf(fov) ==
  CASE fov = 45 -> 41421
    [] fov = 60 -> 57735
    [] fov = 90 -> 100000

\* The bounding box of the geometry behind a model URL.
BoxOf(url) ==
  CASE url = ApiUrl \o "/a1.ply" -> [min |-> << -5, -5, -5 >>, max |-> << 5, 5, 5 >>]
    [] url = ApiUrl \o "/a0.ply" -> [min |-> << 0, 0, 0 >>, max |-> << 20, 8, 12 >>]
    [] url = ApiUrl \o "/a2.ply" -> [min |-> << -2, -2, 0 >>, max |-> << 2, 6, 3 >>]
    [] url = ApiUrl \o "/b0.ply" -> [min |-> << 1, 1, 1 >>, max |-> << 4, 7, 2 >>]
    [] OTHER -> [min |-> << -3, 0, -3 >>, max |-> << 3, 1, 3 >>]

Max3(a, b, c) ==
  IF a >= b /\ a >= c THEN a ELSE IF b >= c THEN b ELSE c

\* Math.abs(maxDim / 2 / Math.tan(fov / 2)): the distance without padding.
TightDist(maxDim, fov) == (maxDim * 50 * 100000) \div TanHalf(fov)

\* Math.abs(maxDim / 2 / Math.tan(fov / 2)) * 2.0
cameraDist(maxDim, fov) == ((maxDim * 50 * 100000) \div TanHalf(fov)) * 2

\* The effect of Model on a loaded geometry: the camera moves to
\* center + cameraDist on each axis and looks at the center.
autoFrame(box, fov) ==
  LET center == [i \in 1..3 |-> 50 * (box.min[i] + box.max[i])]
      size == [i \in 1..3 |-> box.max[i] - box.min[i]]
      maxDim == Max3(size[1], size[2], size[3])
  IN [position |-> [i \in 1..3 |-> center[i] + cameraDist(maxDim, fov)],
      target |-> center]

\* -------------------------------------------------------------------- Init
InitInputs ==
  /\ rooms = InitialRooms
  /\ inputMode = "manual"
  /\ unit = "ft"
  /\ textPrompt = << >>
  /\ totalAreaConstraint = 1000

InitRest ==
  /\ step = 1
  /\ validationError = ""
  /\ loading = FALSE
  /\ generationStatus = ""
  /\ modelUrl = Null
  /\ layoutSpec = Null
  /\ layoutData = Null
  /\ score = 0
  /\ stats = Null
  /\ error = Null
  /\ candidates = << >>
  /\ selectedCandidateId = NullId
  /\ mounted = TRUE
  /\ nJobs = 0
  /\ pc = [k \in Jobs |-> "idle"]
  /\ tickActive = [k \in Jobs |-> FALSE]
  /\ sIdx = [k \in Jobs |-> 0]
  /\ pollActive = [k \in Jobs |-> FALSE]
  /\ inflight = [k \in Jobs |-> 0]
  /\ getCount = [k \in Jobs |-> 0]
  /\ postCount = [k \in Jobs |-> 0]
  /\ srvStatus = [k \in Jobs |-> "none"]
  /\ srvResult = [k \in Jobs |-> NoResult]
  /\ srvError = [k \in Jobs |-> ""]
  /\ handled = [k \in Jobs |-> 0]
  /\ firstTerminalPoll = [k \in Jobs |-> 0]
  /\ discarded = {}
  /\ errs = [k \in Jobs |-> 0]
  /\ edits = 0
  /\ now = 0
  /\ pollBase = 0
  /\ hoveredRoomId = NullId
  /\ pointerOn = [p \in Pointers |-> NoElement]
  /\ prompt = [k \in Jobs |-> NoPrompt]
  /\ posted = [k \in Jobs |-> NoPrompt]
  /\ highlightMesh = [r \in LayoutRooms |-> NoHighlight("unrendered")]
  /\ roomMeshes = [r \in LayoutRooms |-> NoRoom("unrendered")]
  /\ camera = InitialCamera
  /\ framedUrl = Null

\* The polygon map before any layout is on the canvas.
NoLayout == [r \in LayoutRooms |-> Absent]

Init == InitInputs /\ InitRest /\ polygons = NoLayout

\* The wizard after the user has edited the room list in step 1.
InitValidate ==
  /\ rooms \in RoomLists
  /\ inputMode = "manual"
  /\ unit = "ft"
  /\ textPrompt = << >>
  /\ totalAreaConstraint = 1000
  /\ InitRest
  /\ polygons = NoLayout

\* ----------------------------------------------------------- user actions
\* Step 1 controls (rendered while step = 1).
SetInputMode(m) ==
  /\ mounted /\ step = 1
  /\ inputMode' = m
  /\ UNCHANGED << step, rooms, unit, textPrompt, totalAreaConstraint, validationError,
                  loading, generationStatus, storeVars, error, mounted,
                  nJobs, pc, timerVars, netVars, srvVars, histVars,
                  timeVars, hoverVars, reqVars, sceneVars >>

SetTotalAreaConstraint(t) ==
  /\ mounted /\ step = 1 /\ inputMode = "manual"
  /\ totalAreaConstraint' = t
  /\ UNCHANGED << step, rooms, inputMode, unit, textPrompt, validationError,
                  loading, generationStatus, storeVars, error, mounted,
                  nJobs, pc, timerVars, netVars, srvVars, histVars,
                  timeVars, hoverVars, reqVars, sceneVars >>

\* The unit toggle of step 1.
SetUnit ==
  /\ mounted /\ step = 1
  /\ unit' = IF unit = "ft" THEN "m" ELSE "ft"
  /\ UNCHANGED << step, rooms, inputMode, textPrompt, totalAreaConstraint, validationError,
                  loading, generationStatus, storeVars, error, mounted,
                  nJobs, pc, timerVars, netVars, srvVars, histVars,
                  timeVars, hoverVars, reqVars, sceneVars >>

\* The room editor of step 1 (manual mode).
RoomEdit(newRooms) ==
  /\ mounted /\ step = 1 /\ inputMode = "manual"
  /\ edits < MaxEdits
  /\ edits' = edits + 1
  /\ rooms' = newRooms
  /\ UNCHANGED << step, inputMode, unit, textPrompt, totalAreaConstraint, validationError,
                  loading, generationStatus, storeVars, error, mounted,
                  nJobs, pc, timerVars, netVars, srvVars,
                  handled, firstTerminalPoll, discarded, errs,
                  timeVars, hoverVars, reqVars, sceneVars >>

handleAddRoom(stamp) ==
  /\ \A i \in 1..Len(rooms) : rooms[i].id < stamp
  /\ RoomEdit(Append(rooms, NewRoom(stamp)))

handleRoomChange(id, field, value) ==
  /\ \E i \in 1..Len(rooms) : rooms[i].id = id
  /\ RoomEdit([i \in 1..Len(rooms) |->
                 IF rooms[i].id = id THEN [rooms[i] EXCEPT ![field] = value] ELSE rooms[i]])

handleRemoveRoom(id) ==
  /\ \E i \in 1..Len(rooms) : rooms[i].id = id
  /\ RoomEdit(SelectSeq(rooms, LAMBDA r : r.id # id))

SetTextPrompt(t) ==
  /\ mounted /\ step = 1 /\ inputMode = "text"
  /\ textPrompt' = t
  /\ UNCHANGED << step, rooms, inputMode, unit, totalAreaConstraint, validationError,
                  loading, generationStatus, storeVars, error, mounted,
                  nJobs, pc, timerVars, netVars, srvVars, histVars,
                  timeVars, hoverVars, reqVars, sceneVars >>

\* setStep(s => s + 1) without the validation.
nextStepUnchecked ==
  /\ mounted /\ step = 1
  /\ step' = step + 1
  /\ UNCHANGED << inputVars, validationError, loading, generationStatus, storeVars, error,
                  mounted, nJobs, pc, timerVars, netVars, srvVars, histVars,
                  timeVars, hoverVars, reqVars, sceneVars >>

nextStep ==
  /\ mounted /\ step = 1
  /\ validationError' = ValidateMessage
  /\ step' = IF ValidateOk THEN step + 1 ELSE step
  /\ UNCHANGED << inputVars, loading, generationStatus, storeVars, error, mounted,
                  nJobs, pc, timerVars, netVars, srvVars, histVars,
                  timeVars, hoverVars, reqVars, sceneVars >>

\* Step 2 controls (rendered while step = 2).
prevStep ==
  /\ mounted /\ step = 2
  /\ step' = IF step - 1 > 1 THEN step - 1 ELSE 1
  /\ UNCHANGED << inputVars, validationError, loading, generationStatus, storeVars,
                  error, mounted, nJobs, pc, timerVars, netVars, srvVars, histVars,
                  timeVars, hoverVars, reqVars, sceneVars >>

\* handleGenerate up to its first await: the state is reset, the ticker is
\* started and the token request is pending.
GenerateUpTo(budget) ==
  /\ mounted /\ step = 2
  /\ nJobs < budget
  /\ LET k == nJobs + 1 IN
       /\ nJobs' = k
       /\ step' = 3
       /\ loading' = TRUE
       /\ error' = Null
       /\ candidates' = << >>
       /\ selectedCandidateId' = NullId
       /\ modelUrl' = Null
       /\ layoutSpec' = Null
       /\ layoutData' = Null
       /\ tickActive' = [tickActive EXCEPT ![k] = TRUE]
       /\ sIdx' = [sIdx EXCEPT ![k] = 0]
       /\ pc' = [pc EXCEPT ![k] = "token"]
       /\ prompt' = [prompt EXCEPT ![k] = compiledPrompt]
       /\ discarded' = discarded \cup (1..nJobs)
  /\ UNCHANGED << inputVars, validationError, generationStatus, score, stats, mounted,
                  pollActive, netVars, srvVars, handled, firstTerminalPoll, errs, edits,
                  timeVars, hoverVars, posted, sceneVars >>

handleGenerate == GenerateUpTo(MaxJobs)

\* ------------------------------------------------- candidate selection
\* A selection that swaps everything but the score.
selectKeepScore(c) ==
  /\ selectedCandidateId' = c.id
  /\ modelUrl' = ApiUrl \o c.model_url
  /\ layoutSpec' = c.spec
  /\ layoutData' = c.layout
  /\ stats' = c.stats
  /\ UNCHANGED score

\* handleSelectCandidate(candidate): six setters, one batched update.
handleSelectCandidate(c) ==
  /\ selectedCandidateId' = c.id
  /\ modelUrl' = ApiUrl \o c.model_url
  /\ layoutSpec' = c.spec
  /\ layoutData' = c.layout
  /\ score' = c.score
  /\ stats' = c.stats

\* Step 4 controls: the results panel is rendered while
\* step = 4 /\ layoutSpec /\ stats.
ResultsPanel == step = 4 /\ layoutSpec # Null /\ stats # Null

ClickCandidate(i) ==
  /\ mounted /\ ResultsPanel
  /\ i \in 1..Len(candidates)
  /\ handleSelectCandidate(candidates[i])
  /\ UNCHANGED << step, inputVars, validationError, loading, generationStatus, error,
                  candidates, mounted, nJobs, pc, timerVars, netVars, srvVars, histVars,
                  timeVars, hoverVars, reqVars, sceneVars >>

resetWizard ==
  /\ mounted /\ ResultsPanel
  /\ step' = 1
  /\ candidates' = << >>
  /\ modelUrl' = Null
  /\ discarded' = discarded \cup (1..nJobs)
  /\ UNCHANGED << inputVars, validationError, loading, generationStatus, layoutSpec,
                  layoutData, score, stats, error, selectedCandidateId, mounted,
                  nJobs, pc, timerVars, netVars, srvVars, handled, firstTerminalPoll, errs, edits,
                  timeVars, hoverVars, reqVars, sceneVars >>

\* The router leaves /create: the component instance is torn down.  Create
\* registers no cleanup effect, so nothing else happens here.  After it the
\* state variables record what the still running callbacks last set.
Unmount ==
  /\ mounted
  /\ mounted' = FALSE
  /\ UNCHANGED << step, inputVars, validationError, loading, generationStatus, storeVars,
                  error, nJobs, pc, timerVars, netVars, srvVars, histVars,
                  timeVars, hoverVars, reqVars, sceneVars >>

\* ------------------------------------------------------------ submission
\* clearInterval(statusInterval) of session k.
KeepStatusInterval(k) == UNCHANGED tickActive

ClearStatusInterval(k) == tickActive' = [tickActive EXCEPT ![k] = FALSE]

\* clearInterval(pollInterval) of session k.
ClearPollInterval(k) == pollActive' = [pollActive EXCEPT ![k] = FALSE]

\* catch (err) of handleGenerate, then finally.
SubmitCatch(k, exit) ==
  /\ ClearStatusInterval(k)
  /\ error' = ErrConnect
  /\ step' = 2
  /\ loading' = FALSE
  /\ pc' = [pc EXCEPT ![k] = exit]

\* await currentUser.getIdToken() rejects.
TokenFail(k) ==
  /\ pc[k] = "token"
  /\ SubmitCatch(k, "tokenfail")
  /\ prompt' = [prompt EXCEPT ![k] = NoPrompt]
  /\ UNCHANGED << inputVars, validationError, generationStatus, storeVars, mounted,
                  nJobs, sIdx, pollActive, netVars, srvVars, histVars,
                  timeVars, hoverVars, posted, sceneVars >>

\* The token arrives and POST /generate is sent.
PostSend(k) ==
  /\ pc[k] = "token"
  /\ pc' = [pc EXCEPT ![k] = "post"]
  /\ postCount' = [postCount EXCEPT ![k] = @ + 1]
  /\ posted' = [posted EXCEPT ![k] = prompt[k]]
  /\ prompt' = [prompt EXCEPT ![k] = NoPrompt]
  /\ UNCHANGED << step, inputVars, validationError, loading, generationStatus, storeVars,
                  error, mounted, nJobs, timerVars, inflight, getCount, srvVars,
                  histVars,
                  timeVars, hoverVars, sceneVars >>

\* await axios.post(...) rejects (transport error or non-2xx).
PostThrow(k) ==
  /\ pc[k] = "post"
  /\ SubmitCatch(k, "threw")
  /\ posted' = [posted EXCEPT ![k] = NoPrompt]
  /\ UNCHANGED << inputVars, validationError, generationStatus, storeVars, mounted,
                  nJobs, sIdx, pollActive, netVars, srvVars, histVars,
                  timeVars, hoverVars, prompt, sceneVars >>

\* The response is { success: false, error? }.
PostRejected(k, e) ==
  /\ pc[k] = "post"
  /\ ClearStatusInterval(k)
  /\ error' = OrElse(e, ErrStart)
  /\ step' = 2
  /\ loading' = FALSE
  /\ pc' = [pc EXCEPT ![k] = "rejected"]
  /\ posted' = [posted EXCEPT ![k] = NoPrompt]
  /\ UNCHANGED << inputVars, validationError, generationStatus, storeVars, mounted,
                  nJobs, sIdx, pollActive, netVars, srvVars, histVars,
                  timeVars, hoverVars, prompt, sceneVars >>

\* The response is { success: true, job_id }: the poller is started.
PostAccepted(k) ==
  /\ pc[k] = "post"
  /\ pollActive' = [pollActive EXCEPT ![k] = TRUE]
  /\ loading' = FALSE
  /\ pc' = [pc EXCEPT ![k] = "polling"]
  /\ srvStatus' = [srvStatus EXCEPT ![k] = "running"]
  /\ posted' = [posted EXCEPT ![k] = NoPrompt]
  /\ UNCHANGED << step, inputVars, validationError, generationStatus, storeVars, error,
                  mounted, nJobs, tickActive, sIdx, netVars, srvResult, srvError, histVars,
                  timeVars, hoverVars, prompt, sceneVars >>

\* ---------------------------------------------------------------- timers
\* A ticker that moves on by two labels at a time.
StatusTickSkipping(k, budget) ==
  /\ tickActive[k]
  /\ Total(sIdx, MaxJobs) < budget
  /\ generationStatus' = statuses[sIdx[k] + 1]
  /\ sIdx' = [sIdx EXCEPT ![k] = IF @ + 2 < Len(statuses) - 1 THEN @ + 2 ELSE Len(statuses) - 1]
  /\ UNCHANGED << step, inputVars, validationError, loading, storeVars, error, mounted,
                  nJobs, pc, tickActive, pollActive, inflight, getCount, postCount,
                  srvVars, histVars, timeVars, hoverVars, reqVars, sceneVars >>

\* One firing of statusInterval (every 3000 ms).
StatusTickUpTo(k, budget) ==
  /\ tickActive[k]
  /\ Total(sIdx, MaxJobs) < budget
  /\ generationStatus' = statuses[sIdx[k] + 1]
  /\ sIdx' = [sIdx EXCEPT ![k] = IF @ + 1 < Len(statuses) - 1 THEN @ + 1 ELSE Len(statuses) - 1]
  /\ UNCHANGED << step, inputVars, validationError, loading, storeVars, error, mounted,
                  nJobs, pc, tickActive, pollActive, inflight, getCount, postCount,
                  srvVars, histVars,
                  timeVars, hoverVars, reqVars, sceneVars >>

\* One firing of pollInterval (every 2000 ms): GET /jobs/{jobId} is sent and
\* the callback waits for the response.
PollTickUpTo(k, budget) ==
  /\ pollActive[k]
  /\ Total(getCount, MaxJobs) < budget
  /\ inflight' = [inflight EXCEPT ![k] = @ + 1]
  /\ getCount' = [getCount EXCEPT ![k] = @ + 1]
  /\ UNCHANGED << step, inputVars, validationError, loading, generationStatus, storeVars,
                  error, mounted, nJobs, pc, timerVars, postCount, srvVars,
                  histVars,
                  timeVars, hoverVars, reqVars, sceneVars >>

StatusTick(k) == StatusTickUpTo(k, MaxTicks)

PollTick(k) == PollTickUpTo(k, MaxPolls)

\* A poll response has arrived: one request less is pending.
Arrive(k) ==
  /\ inflight[k] > 0
  /\ inflight' = [inflight EXCEPT ![k] = @ - 1]

\* The terminal handling of session k runs once more.
NoteTerminal(k) ==
  /\ UNCHANGED << discarded, errs, edits >>
  /\ handled' = [handled EXCEPT ![k] = @ + 1]
  /\ firstTerminalPoll' =
       [firstTerminalPoll EXCEPT ![k] = IF @ = 0 THEN getCount[k] - inflight[k] + 1 ELSE @]

\* axios.get rejects: catch (e) logs and returns.
PollError(k) ==
  /\ Arrive(k)
  /\ errs' = [errs EXCEPT ![k] = @ + 1]
  /\ UNCHANGED << step, inputVars, validationError, loading, generationStatus, storeVars,
                  error, mounted, nJobs, pc, timerVars, getCount, postCount, srvVars,
                  handled, firstTerminalPoll, discarded, edits,
                  timeVars, hoverVars, reqVars, sceneVars >>

\* The response reads queued or processing: neither branch is taken.
PollPending(k, s) ==
  /\ Arrive(k)
  /\ s \in {"queued", "processing"}
  /\ srvStatus[k] = "running"
  /\ UNCHANGED << step, inputVars, validationError, loading, generationStatus, storeVars,
                  error, mounted, nJobs, pc, timerVars, getCount, postCount,
                  srvVars, histVars,
                  timeVars, hoverVars, reqVars, sceneVars >>

\* The response reads completed with result r.
PollCompleted(k, r) ==
  /\ Arrive(k)
  /\ srvStatus[k] # "failed"
  /\ srvStatus[k] = "completed" => r = srvResult[k]
  /\ srvStatus' = [srvStatus EXCEPT ![k] = "completed"]
  /\ srvResult' = [srvResult EXCEPT ![k] = r]
  /\ NoteTerminal(k)
  /\ ClearPollInterval(k)
  /\ ClearStatusInterval(k)
  /\ candidates' = r.candidates
  /\ IF BestIndex(r) # 0
       THEN \* handleSelectCandidate(best); setStep(4)
            /\ handleSelectCandidate(r.candidates[BestIndex(r)])
            /\ step' = 4
       ELSE \* best is undefined: candidate.id throws, catch (e) logs
            /\ UNCHANGED << step, selectedCandidateId, modelUrl, layoutSpec, layoutData,
                            score, stats >>
  /\ UNCHANGED << inputVars, validationError, loading, generationStatus, error, mounted,
                  nJobs, pc, sIdx, getCount, postCount, srvError,
                  timeVars, hoverVars, reqVars, sceneVars >>

\* The response reads failed, with or without an error string.
PollFailed(k, e) ==
  /\ Arrive(k)
  /\ srvStatus[k] # "completed"
  /\ srvStatus[k] = "failed" => e = srvError[k]
  /\ srvStatus' = [srvStatus EXCEPT ![k] = "failed"]
  /\ srvError' = [srvError EXCEPT ![k] = e]
  /\ NoteTerminal(k)
  /\ ClearPollInterval(k)
  /\ ClearStatusInterval(k)
  /\ error' = OrElse(e, ErrProcessing)
  /\ step' = 2
  /\ UNCHANGED << inputVars, validationError, loading, generationStatus, storeVars,
                  mounted, nJobs, pc, sIdx, getCount, postCount, srvResult,
                  timeVars, hoverVars, reqVars, sceneVars >>

\* -------------------------------------------------------------------- Next
Next ==
  \/ \E t \in TotalChoices : SetTotalAreaConstraint(t)
  \/ nextStep
  \/ prevStep
  \/ handleGenerate
  \/ \E i \in 1..3 : ClickCandidate(i)
  \/ resetWizard
  \/ Unmount
  \/ \E k \in Jobs : TokenFail(k)
  \/ \E k \in Jobs : PostSend(k)
  \/ \E k \in Jobs : PostThrow(k)
  \/ \E k \in Jobs, e \in ServerErrors : PostRejected(k, e)
  \/ \E k \in Jobs : PostAccepted(k)
  \/ \E k \in Jobs : StatusTick(k)
  \/ \E k \in Jobs : PollTick(k)
  \/ \E k \in Jobs : PollError(k)
  \/ \E k \in Jobs, s \in {"queued", "processing"} : PollPending(k, s)
  \/ \E k \in Jobs, r \in Results : PollCompleted(k, r)
  \/ \E k \in Jobs, e \in ServerErrors : PollFailed(k, e)

Spec == Init /\ [][Next]_vars

\* The same wizard with the other step 1 inputs (input mode, free text).
EditNext ==
  \/ \E m \in {"manual", "text"} : SetInputMode(m)
  \/ \E t \in TextChoices : SetTextPrompt(t)

SpecEdit == Init /\ [][Next \/ EditNext]_vars

\* The wizard with the room editor of step 1.
RoomIds == {1, 2, 3, 4} \cup Stamps

RoomNext ==
  \/ \E t \in Stamps : handleAddRoom(t)
  \/ \E id \in RoomIds, v \in TypeChoices : handleRoomChange(id, "type", v)
  \/ \E id \in RoomIds, v \in AreaChoices : handleRoomChange(id, "area", v)
  \/ \E id \in RoomIds : handleRemoveRoom(id)

SpecRooms == Init /\ [][Next \/ RoomNext]_vars

\* Step 1 alone, on edited room lists: every input control and Next.
ValidateNext ==
  \/ nextStep
  \/ prevStep
  \/ SetUnit
  \/ \E t \in TotalChoices : SetTotalAreaConstraint(t)
  \/ EditNext

SpecValidate == InitValidate /\ [][ValidateNext]_vars

\* Step 1 and the submission of what it holds.
PromptNext ==
  \/ ValidateNext
  \/ handleGenerate
  \/ \E k \in Jobs : PostSend(k)
  \/ \E k \in Jobs : PostThrow(k)

SpecPrompt == InitValidate /\ [][PromptNext]_vars

\* ------------------------------------------------------------------ hover
\* Element e is rendered: the meshes whenever a layout is held, the chart
\* and the legend within the results panel.
Rendered(e) ==
  /\ mounted /\ e \in Elements
  /\ layoutSpec # Null
  /\ IF e[1] = "mesh" THEN layoutData # Null ELSE ResultsPanel

\* The element pointer p is over; an element that is no longer rendered has
\* gone from under the pointer without any event.
PointerOver(p) == IF Rendered(pointerOn[p]) THEN pointerOn[p] ELSE NoElement

\* The touch pointer reaches the canvas only; the mouse every element.
Reaches(p, e) == p = "mouse" \/ e[1] = "mesh"

\* onPointerOver / onMouseEnter of element e: setHoveredRoomId(id).
PointerEnter(p, e) ==
  /\ Rendered(e) /\ Reaches(p, e)
  /\ PointerOver(p) = NoElement
  /\ hoveredRoomId' = e[2]
  /\ pointerOn' = [pointerOn EXCEPT ![p] = e]
  /\ UNCHANGED << step, inputVars, validationError, loading, generationStatus, storeVars,
                  error, mounted, nJobs, pc, timerVars, netVars, srvVars, histVars,
                  timeVars, reqVars, sceneVars >>

\* onPointerOut / onMouseLeave of the element under p: setHoveredRoomId(null).
PointerLeave(p) ==
  /\ PointerOver(p) # NoElement
  /\ hoveredRoomId' = NullId
  /\ pointerOn' = [pointerOn EXCEPT ![p] = NoElement]
  /\ UNCHANGED << step, inputVars, validationError, loading, generationStatus, storeVars,
                  error, mounted, nJobs, pc, timerVars, netVars, srvVars, histVars,
                  timeVars, reqVars, sceneVars >>

\* layoutData[id] and the color of room id in layoutSpec.rooms; << >> is
\* null / undefined.
Nothing == << >>
PolygonOf(data, id) == IF id \in LayoutRooms THEN << "ring", data, id >> ELSE Nothing
ColorOf(spec, id) == IF id \in LayoutRooms THEN << "color", spec, id >> ELSE Nothing

\* A JS value used as a condition: null and 0 are falsy.
Truthy(id) == id # NullId /\ id # 0

\* hoveredRoomId && layoutData ? layoutData[hoveredRoomId] : null
hoveredPoly ==
  IF Truthy(hoveredRoomId) /\ layoutData # Null
    THEN PolygonOf(layoutData, hoveredRoomId) ELSE Nothing

\* hoveredRoomId && layoutSpec ? layoutSpec.rooms.find(...)?.color : null
hoveredColor ==
  IF Truthy(hoveredRoomId) /\ layoutSpec # Null
    THEN ColorOf(layoutSpec, hoveredRoomId) ELSE Nothing

\* {hoveredPoly && <RoomHighlight roomPoly={hoveredPoly} color={hoveredColor} />}:
\* what the overlay shows, Nothing when it is not rendered.
RoomHighlight ==
  IF mounted /\ hoveredPoly # Nothing THEN << hoveredPoly, hoveredColor >> ELSE Nothing

\* ------------------------------------------------------------------ scene
\* The canvas holds a layout whose polygon map is any of the polygons a
\* layout may carry.
InitGeometry == InitInputs /\ InitRest /\ polygons \in [LayoutRooms -> PolyChoices]

\* An error raised while rendering is caught by no error boundary: the
\* component tree is taken down.
Crash(raised) == mounted' = ~ raised

\* layoutSpec.rooms.map(room => <InteractiveRoom ... />): every room of the
\* layout is rendered in one pass.
DrawRooms ==
  /\ mounted
  /\ LET raised == {r \in LayoutRooms : InteractiveRoom(polygons, r).kind = "TypeError"} IN
       /\ roomMeshes' =
            IF raised = {}
              THEN [r \in LayoutRooms |-> InteractiveRoom(polygons, r)]
              ELSE [r \in LayoutRooms |->
                      IF r \in raised THEN NoRoom("TypeError") ELSE NoRoom("unmounted")]
       /\ Crash(raised # {})
  /\ UNCHANGED << step, inputVars, validationError, loading, generationStatus, storeVars,
                  error, nJobs, pc, timerVars, netVars, srvVars, histVars,
                  timeVars, hoverVars, reqVars,
                  polygons, highlightMesh, camera, framedUrl >>

\* <RoomHighlight roomPoly={...} /> on the polygon of room id.
DrawHighlight(id) ==
  /\ mounted
  /\ highlightMesh' = [highlightMesh EXCEPT ![id] = RoomHighlightMesh(polygons[id])]
  /\ roomMeshes' =
       IF RoomHighlightMesh(polygons[id]).kind = "TypeError"
         THEN [r \in LayoutRooms |-> NoRoom("unmounted")] ELSE roomMeshes
  /\ Crash(RoomHighlightMesh(polygons[id]).kind = "TypeError")
  /\ UNCHANGED << step, inputVars, validationError, loading, generationStatus, storeVars,
                  error, nJobs, pc, timerVars, netVars, srvVars, histVars,
                  timeVars, hoverVars, reqVars,
                  polygons, camera, framedUrl >>

GeometryNext ==
  \/ DrawRooms
  \/ \E id \in LayoutRooms : DrawHighlight(id)

SpecGeometry == InitGeometry /\ [][GeometryNext]_vars

\* {modelUrl && <Model url={modelUrl} />} and the effect of Model, which runs
\* when the url (and with it the loaded geometry) is another one than at its
\* last run; without a model URL the component is unmounted.
ModelEffect ==
  /\ mounted
  /\ framedUrl # modelUrl
  /\ framedUrl' = modelUrl
  /\ camera' = IF modelUrl = Null THEN camera ELSE autoFrame(BoxOf(modelUrl), CameraFov)
  /\ UNCHANGED << step, inputVars, validationError, loading, generationStatus, storeVars,
                  error, mounted, nJobs, pc, timerVars, netVars, srvVars, histVars,
                  timeVars, hoverVars, reqVars,
                  polygons, highlightMesh, roomMeshes >>

\* The results view with its pointer events.
ViewNext ==
  \/ nextStep
  \/ handleGenerate
  \/ \E k \in Jobs : PostSend(k)
  \/ \E k \in Jobs : PostAccepted(k)
  \/ \E k \in Jobs : PollTick(k)
  \/ \E k \in Jobs, r \in Results : PollCompleted(k, r)
  \/ \E i \in 1..3 : ClickCandidate(i)
  \/ resetWizard
  \/ \E p \in Pointers, e \in Elements : PointerEnter(p, e)
  \/ \E p \in Pointers : PointerLeave(p)
  \/ ModelEffect

SpecView == Init /\ [][ViewNext]_vars

\* Long generations: the tickers run through all their labels.
LongNext ==
  \/ nextStep
  \/ handleGenerate
  \/ \E k \in Jobs : TokenFail(k)
  \/ \E k \in Jobs : PostSend(k)
  \/ \E k \in Jobs : PostAccepted(k)
  \/ \E k \in Jobs : StatusTickUpTo(k, MaxLabels)
  \/ \E k \in Jobs : PollTick(k)
  \/ \E k \in Jobs, s \in {"queued", "processing"} : PollPending(k, s)
  \/ \E k \in Jobs, r \in Results : PollCompleted(k, r)
  \/ \E k \in Jobs, e \in ServerErrors : PollFailed(k, e)

\* Repeated generations: every failed one is followed by another click on
\* Generate in Review.
SessionsNext ==
  \/ nextStep
  \/ GenerateUpTo(MaxSessions)
  \/ \E k \in Jobs : PostSend(k)
  \/ \E k \in Jobs : PostAccepted(k)
  \/ \E k \in Jobs : StatusTick(k)
  \/ \E k \in Jobs : PollTick(k)
  \/ \E k \in Jobs, e \in ServerErrors : PollFailed(k, e)

SpecSessions == Init /\ [][SessionsNext]_vars

SpecLong == Init /\ [][LongNext]_vars

\* ------------------------------------------------------------ timed runs
\* One generation on a clock of whole seconds.  now is the time since the
\* first handleGenerate and pollBase the time at which its poller was
\* started.  An interval fires at its due time, before time passes; of two
\* intervals due together the one armed first fires first, and that is
\* always the ticker (armed a full TickEvery before, the poller PollEvery).
\* Responses of the token, POST and GET requests take any time.
FirstJob == 1

\* Due time of the next ticker firing (while the label index is not clamped).
TickDue == TickEvery * (sIdx[FirstJob] + 1)

\* Due time of the next poller firing.
PollDue == pollBase + PollEvery * (getCount[FirstJob] + 1)

TickIsDue == tickActive[FirstJob] /\ TickDue = now
PollIsDue == pollActive[FirstJob] /\ PollDue = now

TimedGenerate == nJobs = 0 /\ handleGenerate

TimedStatusTick == TickIsDue /\ StatusTickUpTo(FirstJob, MaxTime)

TimedPollTick == PollIsDue /\ ~ TickIsDue /\ PollTickUpTo(FirstJob, MaxTime)

\* A second passes: nothing is due, and the poller is not started yet
\* exactly while pollBase follows the clock.
Advance ==
  /\ nJobs = 1 /\ now < MaxTime
  /\ ~ TickIsDue /\ ~ PollIsDue
  /\ sIdx[FirstJob] < Len(statuses) - 1
  /\ now' = now + 1
  /\ pollBase' = IF pc[FirstJob] = "polling" THEN pollBase ELSE now + 1
  /\ UNCHANGED << step, inputVars, validationError, loading, generationStatus, storeVars,
                  error, mounted, nJobs, pc, timerVars, netVars, srvVars, histVars,
                  hoverVars, reqVars, sceneVars >>

TimedNext ==
  \/ nextStep
  \/ TimedGenerate
  \/ PostSend(FirstJob)
  \/ PostAccepted(FirstJob)
  \/ TimedStatusTick
  \/ TimedPollTick
  \/ PollError(FirstJob)
  \/ \E s \in {"queued", "processing"} : PollPending(FirstJob, s)
  \/ \E r \in Results : PollCompleted(FirstJob, r)
  \/ \E e \in ServerErrors : PollFailed(FirstJob, e)
  \/ Advance

SpecTimed == Init /\ [][TimedNext]_vars

\* ================================================================= claims
TimersOff(k) == ~ tickActive[k] /\ ~ pollActive[k]

\* A poll response of session k is handled in this step.
ResponseHandled(k) == inflight'[k] < inflight[k]

\* The terminal handling (completed or failed branch) of session k runs in
\* this step.
TerminalHandled(k) == handled'[k] > handled[k]

\* C1: whenever the wizard is in Rooms, Review or Results, no status ticker
\* and no job poller is active; timers run only while step = 3.
C1_TimersOnlyWhileGenerating ==
  (mounted /\ step # 3) => \A k \in Jobs : TimersOff(k)

\* C2: for one job the terminal handling runs at most once, and after it has
\* run no poll response of that job changes the step, the error or the
\* candidate store.
C2_TerminalHandledOnce ==
  [][\A k \in Jobs : mounted' =>
       /\ handled'[k] <= 1
       /\ (handled[k] >= 1 /\ ResponseHandled(k)) => UNCHANGED << step, error, candidates >>
    ]_vars

\* C3: a job whose status first reads completed on the Nth poll gets at most
\* N GET requests in total, and none after the terminal status was observed.
C3_AtMostNPolls ==
  [][\A k \in Jobs : mounted' =>
       /\ (handled'[k] >= 1 /\ srvStatus'[k] = "completed")
            => getCount'[k] <= firstTerminalPoll'[k]
       /\ handled[k] >= 1 => getCount'[k] = getCount[k]
    ]_vars

\* C4: once the view is unmounted both intervals of every session are
\* cancelled: no poll request is sent, no ticker update and no step change
\* is applied any more.
C4_UnmountCancelsTimers ==
  [][(~ mounted') =>
       /\ \A k \in Jobs : ~ tickActive'[k] /\ ~ pollActive'[k]
       /\ (~ mounted) => UNCHANGED << getCount, generationStatus, step >>
    ]_vars

\* C5: once a job is discarded (the wizard was reset or a newer generation
\* started) none of its poll responses changes the step, the error, the
\* candidate set or the selection, and none of its timers runs beside the
\* timers of a newer job.
C5_DiscardedJobInert ==
  [][\A k \in discarded : mounted' =>
       /\ ResponseHandled(k) => UNCHANGED << step, error, candidates, selectedCandidateId >>
       /\ \A j \in Jobs : j > k => (TimersOff(k)' \/ TimersOff(j)')
    ]_vars

StepEdges == { <<1, 2>>, <<2, 1>>, <<2, 3>>, <<3, 2>>, <<3, 4>>, <<4, 1>> }

\* C6: the step stays in 1..4 and changes only along Rooms->Review,
\* Review->Rooms, Review->Generating, Generating->Review,
\* Generating->Results and Results->Rooms.
C6_StepEdges ==
  [][mounted' => (step' \in 1..4 /\ (step' # step => << step, step' >> \in StepEdges))]_vars

\* The wizard shows no control and nothing is pending that could change the
\* step: no submission awaits its response, no poller runs and no poll
\* response is outstanding.
Stuck ==
  /\ mounted
  /\ step = 3 \/ (step = 4 /\ ~ ResultsPanel)
  /\ \A k \in Jobs : pc[k] \notin {"token", "post"} /\ ~ pollActive[k] /\ inflight[k] = 0

\* C7: no state is unrecoverable, and a delivered poll response with a
\* terminal status (whatever its payload) makes the wizard leave Generating.
C7_NoUnrecoverableState ==
  [][ /\ ~ Stuck'
      /\ \A k \in Jobs : (mounted' /\ TerminalHandled(k)) => step' # 3
    ]_vars

\* C8: when a poll returns completed, the active candidate is the one whose
\* model_url equals result.model_url, or the first candidate when none
\* matches; the full candidate list is stored and the step becomes Results.
C8_CompletedSelectsWinner ==
  [][\A k \in Jobs :
       (mounted' /\ TerminalHandled(k) /\ srvStatus'[k] = "completed") =>
         LET r == srvResult'[k]
             cs == r.candidates
             matches == { i \in 1..Len(cs) : cs[i].model_url = r.model_url }
         IN /\ step' = 4
            /\ candidates' = cs
            /\ Len(cs) > 0
            /\ \E i \in 1..Len(cs) :
                 /\ IF matches # {} THEN i \in matches ELSE i = 1
                 /\ selectedCandidateId' = cs[i].id
                 /\ modelUrl' = ApiUrl \o cs[i].model_url
                 /\ layoutSpec' = cs[i].spec
                 /\ layoutData' = cs[i].layout
                 /\ score' = cs[i].score
                 /\ stats' = cs[i].stats
    ]_vars

C10_SubmissionFailure ==
  /\ [][\A k \in Jobs :
          (pc[k] = "post" /\ pc'[k] \in {"threw", "rejected"}) =>
            /\ step' = 2
            /\ error' # Null /\ error' # ""
            /\ ~ tickActive'[k]
       ]_vars
  /\ [](\A k \in Jobs :
          pc[k] \in {"threw", "rejected"} =>
            /\ postCount[k] = 1
            /\ TimersOff(k)
            /\ getCount[k] = 0 /\ inflight[k] = 0)

C10_Witness ==
  \E k \in Jobs :
    /\ pc[k] = "rejected" /\ postCount[k] = 1
    /\ step = 2 /\ error = ErrStart /\ TimersOff(k)

\* A poll request of session k fails in transport in this step.
PollRequestFailed(k) == errs'[k] > errs[k]

\* C11: a poll request that fails in transport changes neither the step, the
\* error, the candidate store nor any timer, so the next poll tick still
\* fires; and a job that completes after failed polls still reaches Results.
C11_PollFailureSwallowed ==
  [][\A k \in Jobs :
       /\ PollRequestFailed(k) =>
            UNCHANGED << step, error, storeVars, generationStatus, timerVars >>
       /\ (mounted' /\ errs[k] > 0 /\ TerminalHandled(k) /\ srvStatus'[k] = "completed")
            => step' = 4
    ]_vars

\* handleGenerate starts a new session in this step.
GenerateStarted == nJobs' > nJobs

\* C12: right after handleGenerate starts, the candidate list is empty, the
\* active candidate id, model URL, layout spec, polygon map, score and stats
\* hold no value of a previous run, and the error is cleared.
C12_GenerateClearsResults ==
  [][GenerateStarted =>
       /\ step' = 3
       /\ candidates' = << >>
       /\ selectedCandidateId' = NullId
       /\ modelUrl' = Null
       /\ layoutSpec' = Null
       /\ layoutData' = Null
       /\ score' = 0
       /\ stats' = Null
       /\ error' = Null
    ]_vars

\* Nothing of a result is held any more: what the results panel and the
\* canvas (model, hit-test meshes, highlight) read is empty.
ResultCleared ==
  /\ candidates = << >>
  /\ selectedCandidateId = NullId
  /\ modelUrl = Null
  /\ layoutSpec = Null
  /\ layoutData = Null
  /\ score = 0
  /\ stats = Null

\* C13: the wizard leaves Results only by resetWizard, which goes to Rooms
\* and clears the candidate list, the active candidate id, the model URL,
\* the layout spec, the polygon map, the score and the stats.
C13_ResetClearsResults ==
  [][(mounted' /\ step = 4 /\ step' # 4) => (step' = 1 /\ ResultCleared')]_vars

\* resetWizard runs in this step.
WizardReset == step = 4 /\ step' = 1

\* C14: after resetWizard the room list is back to its initial content,
\* whatever add, change or remove operation was applied before.
C14_ResetReplacesRooms ==
  [][(mounted' /\ WizardReset) => rooms' = InitialRooms]_vars

\* The sum of the room areas, in tenths.
RECURSIVE AreaSum(_)
AreaSum(rs) == IF rs = << >> THEN 0 ELSE Head(rs).area + AreaSum(Tail(rs))

\* The stated failure condition of step 1: free text shorter than 10
\* characters once trimmed, or room areas summing to more than total * 1.1.
MustFail ==
  \/ inputMode = "text" /\ Len(Trim(textPrompt)) < 10
  \/ inputMode = "manual" /\ AreaSum(rooms) > totalAreaConstraint * 11

\* validateStep1 returned true / false in this step (nextStep in Rooms).
ValidationPassed == step = 1 /\ step' = 2
ValidationFailed == step = 1 /\ validationError' # validationError /\ validationError' # ""

\* C15: validateStep1 fails if and only if the input mode is free text and
\* the trimmed text has fewer than 10 characters, or the input mode is manual
\* and the sum of the room areas is greater than totalArea * 1.1.
C15_ValidateIff ==
  [][ /\ ValidationPassed => ~ MustFail
      /\ ValidationFailed => MustFail
    ]_vars

\* nextStep ran in Rooms and changed the step or the message.
NextStepActed == step = 1 /\ (step' # step \/ validationError' # validationError)

\* C16: when validateStep1 fails, nextStep leaves the wizard in Rooms with a
\* non-empty validation message and the room list, total area, unit, input
\* mode and text prompt unchanged; when it succeeds the message is cleared
\* and the step becomes Review.
C16_NextStepValidates ==
  [][NextStepActed =>
       IF ValidateOk
         THEN step' = 2 /\ validationError' = "" /\ UNCHANGED inputVars
         ELSE step' = 1 /\ validationError' # "" /\ UNCHANGED inputVars
    ]_vars

C16_Witness ==
  /\ step = 1 /\ inputMode = "text"
  /\ Len(textPrompt) >= 10 /\ ~ ValidateOk
  /\ validationError = MsgText

\* The six displayed fields are those of candidate c.
Shows(c) ==
  /\ selectedCandidateId = c.id
  /\ modelUrl = ApiUrl \o c.model_url
  /\ layoutSpec = c.spec
  /\ layoutData = c.layout
  /\ score = c.score
  /\ stats = c.stats

\* A candidate of the gallery is clicked in this step: the selection changes
\* in Results and no poll response is involved.
CandidateClicked ==
  /\ mounted /\ step = 4 /\ UNCHANGED inflight
  /\ selectedCandidateId' # selectedCandidateId

ScenarioEnds ==
  /\ TerminalHandled(FirstJob)
  /\ handled'[FirstJob] = 1
  /\ srvStatus'[FirstJob] = "completed" /\ srvResult'[FirstJob] = ResMatch
  /\ getCount'[FirstJob] = 3 /\ firstTerminalPoll'[FirstJob] = 3
  /\ inflight'[FirstJob] = 0 /\ errs'[FirstJob] = 0

\* Candidate 1 is selected, the wizard is in Results, both timers stopped.
ScenarioResult ==
  /\ step = 4
  /\ selectedCandidateId = 1 /\ Shows(ResMatch.candidates[2])
  /\ candidates = ResMatch.candidates
  /\ TimersOff(FirstJob)

\* Seconds the submit round trip and the last poll's round trip took together.
Delay == now - 3 * PollEvery

\* C18 as stated: the scenario ends with candidate 1 selected, the wizard in
\* Results, both timers stopped and exactly 2 label advances of the ticker.
C18_EndToEndAsStated ==
  [][ScenarioEnds => (ScenarioResult' /\ sIdx'[FirstJob] = 2)]_vars

\* C18: the scenario ends with candidate 1 selected, the wizard in Results
\* and both timers stopped; the ticker has advanced at least 2 times, and
\* exactly 2 times when the submit and the last poll together took less than
\* one ticker interval.
C18_EndToEnd ==
  [][ScenarioEnds =>
       /\ ScenarioResult'
       /\ sIdx'[FirstJob] >= 2
       /\ Delay < TickEvery => sIdx'[FirstJob] = 2
    ]_vars

C18_Witness ==
  /\ ScenarioResult
  /\ handled[FirstJob] = 1 /\ getCount[FirstJob] = 3 /\ firstTerminalPoll[FirstJob] = 3
  /\ errs[FirstJob] = 0 /\ inflight[FirstJob] = 0
  /\ sIdx[FirstJob] = 2 /\ Delay = 0

\* A status ticker fires in this step: only the tickers write the label and
\* the label indices.
TickerFired == generationStatus' # generationStatus \/ sIdx' # sIdx

LastLabel == Len(statuses)

\* C19: a tick of a status ticker shows the label after the one it showed
\* before (the first label at its first tick), moves its index on by one
\* up to the last label, where it stays; it changes nothing but the label:
\* not the step, the error, the candidate store, the poller or any request.
C19_TickerWalksLabels ==
  [][TickerFired =>
       /\ \E k \in Jobs :
            /\ tickActive[k]
            /\ generationStatus' = statuses[sIdx[k] + 1]
            /\ sIdx'[k] = (IF sIdx[k] + 1 < LastLabel THEN sIdx[k] + 1 ELSE LastLabel - 1)
            /\ \A j \in Jobs \ {k} : sIdx'[j] = sIdx[j]
       /\ UNCHANGED << step, error, storeVars, tickActive, pollActive, netVars, pc, loading >>
    ]_vars

C19_Witness ==
  \E k \in Jobs :
    /\ step = 3 /\ tickActive[k]
    /\ sIdx[k] = LastLabel - 1
    /\ generationStatus = statuses[LastLabel]

\* Some pointer is over an element of room id.
OverRoom(id) == \E p \in Pointers : PointerOver(p) # NoElement /\ PointerOver(p)[2] = id

\* C20: a pointer entering a room element sets the hovered room id to that
\* room and a pointer leaving clears it, and under every ordering of these
\* events the hovered id is set exactly while a pointer is over an element
\* of that room.
C20_HoverSingleWriter ==
  /\ hoveredRoomId # NullId => OverRoom(hoveredRoomId)
  /\ (\E id \in LayoutRooms : OverRoom(id)) => hoveredRoomId # NullId

\* C21: while a room of the active layout is hovered, whatever its id, the
\* highlight overlay shows that room's ring in that room's color; when
\* nothing is hovered no overlay is shown.
C21_HighlightFollowsHover ==
  /\ (mounted /\ hoveredRoomId \in LayoutRooms /\ layoutData # Null /\ layoutSpec # Null) =>
       RoomHighlight = << PolygonOf(layoutData, hoveredRoomId),
                          ColorOf(layoutSpec, hoveredRoomId) >>
  /\ hoveredRoomId = NullId => RoomHighlight = Nothing

\* A point, a flat ring of points, a nested list of rings, and the ring the
\* polygon stands for.
IsPoint(v) == isArray(v) /\ Len(v.a) = 2 /\ \A i \in 1..2 : v.a[i].t = "number"
IsFlatRing(v) == isArray(v) /\ \A i \in 1..Len(v.a) : IsPoint(v.a[i])
IsNested(v) == isArray(v) /\ Len(v.a) > 0 /\ \A i \in 1..Len(v.a) : IsFlatRing(v.a[i])
WellShaped(poly) ==
  poly.present /\ (IsFlatRing(poly.coordinates) \/ IsNested(poly.coordinates))
FirstRing(v) == IF IsNested(v) THEN v.a[1] ELSE v

HighlightDrawn(r) == highlightMesh[r].kind # "unrendered"
RoomDrawn(r) == roomMeshes[r].kind # "unrendered"

\* C22: ring normalization is idempotent, returns a flat ring unchanged and
\* the first ring of a nested structure, and the highlight, the hit-test
\* surface and the room dimensions normalize every polygon alike.
C22_NormalizeRing ==
  \A r \in LayoutRooms :
    (WellShaped(polygons[r]) /\ HighlightDrawn(r) /\ RoomDrawn(r)) =>
      LET ring == FirstRing(polygons[r].coordinates) IN
        /\ HighlightRing(polygons[r]) = ring
        /\ HighlightRing(Polygon(HighlightRing(polygons[r]))) = HighlightRing(polygons[r])
        /\ HitTestRing(polygons[r]) = HighlightRing(polygons[r])
        /\ DimensionsRing(polygons[r]) = HighlightRing(polygons[r])
        /\ highlightMesh[r] = [kind |-> "mesh", path |-> PathOf(ring)]
        /\ roomMeshes[r].kind = "mesh" => roomMeshes[r].path = PathOf(ring)

\* The degenerate polygons: absent, without coordinates, without a point, a
\* nested list holding an empty ring, a single point.
Degenerate(poly) ==
  \/ ~ poly.present
  \/ poly.coordinates = Undef
  \/ poly.coordinates = Arr(<< >>)
  \/ poly.coordinates = Arr(<< Arr(<< >>) >>)
  \/ IsFlatRing(poly.coordinates) /\ Len(poly.coordinates.a) = 1

EmptyDims(d) == d.kind = "null" \/ (d.kind = "dims" /\ d.m = << "0.0", "0.0" >>)

\* C23: a degenerate polygon raises nowhere: its highlight and its hit-test
\* surface are absent or without area, its dimensions absent or zero, and
\* the other rooms of the layout are rendered all the same.
C23_DegenerateNeverRaises ==
  \A r \in LayoutRooms :
    Degenerate(polygons[r]) =>
      /\ mounted
      /\ HighlightDrawn(r) =>
           /\ highlightMesh[r].kind \in {"null", "mesh"}
           /\ Len(highlightMesh[r].path) <= 1
      /\ RoomDrawn(r) =>
           /\ roomMeshes[r].kind \in {"null", "mesh"}
           /\ Len(roomMeshes[r].path) <= 1
           /\ EmptyDims(roomMeshes[r].dims)
           /\ \A o \in LayoutRooms \ {r} :
                ~ Degenerate(polygons[o]) => roomMeshes[o].kind = "mesh"

\* Point i of the ring lies within the box.
Within(ring, i, box) ==
  LET px == At(ring.a[i], 0)
      py == At(ring.a[i], 1)
  IN ~ Lt(px, box.minX) /\ ~ Lt(box.maxX, px) /\ ~ Lt(py, box.minY) /\ ~ Lt(box.maxY, py)

\* C27: the box of a ring holds every point of the ring, the first one
\* included, an empty ring has the sentinel box, and the tooltip anchor of
\* the hit-test surface is the middle of the box the room dimensions use.
C27_BoxScansAllPoints ==
  \A r \in LayoutRooms :
    (WellShaped(polygons[r]) /\ roomMeshes[r].kind = "mesh") =>
      LET ring == HitTestRing(polygons[r])
          box == HitTestBox(ring)
          dbox == DimensionsBox(DimensionsRing(polygons[r]))
      IN /\ \A i \in 1..Len(ring.a) : Within(ring, i, box) /\ Within(ring, i, dbox)
         /\ Len(ring.a) = 0 => box = EmptyBox /\ dbox = EmptyBox
         /\ box = dbox
         /\ roomMeshes[r].cx = Middle(dbox.minX, dbox.maxX)
         /\ roomMeshes[r].cy = Middle(dbox.minY, dbox.maxY)

\* The places of the unit suffix in a compiled prompt, and the n-th of them.
SuffixAt(text) == {i \in 1..Len(text) : text[i] = " sq"}
NthSuffix(text, n) ==
  CHOOSE i \in SuffixAt(text) : Cardinality({j \in SuffixAt(text) : j < i}) = n - 1

\* What the claim says of the prompt compiled from the input of this state.
PromptAsClaimed(text) ==
  IF inputMode = "text"
    THEN text = textPrompt
    ELSE /\ Cardinality(SuffixAt(text)) = Len(rooms) + 1
         /\ \A i \in SuffixAt(text) : i < Len(text) /\ text[i + 1] = unit
         /\ text[NthSuffix(text, 1) - 1] = ToString(totalAreaConstraint)
         /\ \A n \in 1..Len(rooms) :
              /\ text[NthSuffix(text, n + 1) - 1] = NumText(rooms[n].area)
              /\ text[NthSuffix(text, n + 1) + 3] = rooms[n].type

\* C24: the prompt compiled at a click on Generate is, in manual mode, the
\* sentence with one unit suffix for the total and one per room, all with
\* the current unit and the rooms in list order with area and type, and in
\* text mode the entered text; the POST body is that compiled prompt.
C24_CompiledPrompt ==
  [][ /\ nJobs' = nJobs + 1 => PromptAsClaimed(prompt'[nJobs'])
      /\ \A k \in Jobs : postCount'[k] > postCount[k] => posted'[k] = prompt[k]
    ]_vars

C24_Witness ==
  /\ posted[2] # NoPrompt /\ Cardinality(SuffixAt(posted[2])) = 3
  /\ inputMode = "manual" /\ unit = "m" /\ step = 3

\* C25: the chart series has one entry per room in room order, plus one
\* "Unallocated" entry of value total - sum(roomAreas) exactly when that
\* difference is positive.
C25_PieSeries ==
  LET difference == totalAreaConstraint * 10 - AreaSum(rooms) IN
    /\ \A i \in 1..Len(rooms) :
         /\ pieData[i].name = rooms[i].type
         /\ pieData[i].value * 10 = rooms[i].area
         /\ pieData[i].color = palette[((i - 1) % 6) + 1]
    /\ difference > 0 =>
         /\ Len(pieData) = Len(rooms) + 1
         /\ pieData[Len(pieData)].name = "Unallocated"
         /\ pieData[Len(pieData)].value * 10 = difference
    /\ difference <= 0 => Len(pieData) = Len(rooms)
    /\ \A i \in 1..Len(pieData) : pieData[i].name = "Unallocated" => pieData[i].value > 0

\* The largest of the three sizes of the box behind a model URL, and the
\* middle of the box on axis i, in hundredths.
MaxExtent(url) ==
  LET b == BoxOf(url) IN
    Max3(b.max[1] - b.min[1], b.max[2] - b.min[2], b.max[3] - b.min[3])
CenterOf(url, i) == 50 * (BoxOf(url).min[i] + BoxOf(url).max[i])

\* (maxExtent / 2) / tan(22.5 degrees) x 2.0, in hundredths.
FrameDistance(maxExtent) == 2 * ((maxExtent * 50 * 100000) \div 41421)

Framed(cam, url) ==
  /\ \A i \in 1..3 : cam.position[i] = CenterOf(url, i) + FrameDistance(MaxExtent(url))
  /\ \A i \in 1..3 : cam.target[i] = CenterOf(url, i)

\* C26: every run of the model effect puts the camera at center + d on each
\* axis, d = (maxExtent / 2) / tan(fov / 2) x 2.0, looking at the center of
\* the bounding box (24.14 on each axis for the cube of extent 10 at the
\* origin), and once the effect of the active model has run the camera is
\* framed for that model.
C26_AutoFrame ==
  /\ [][ (framedUrl' # framedUrl /\ modelUrl # Null) =>
           /\ Framed(camera', modelUrl)
           /\ modelUrl = ApiUrl \o "/a1.ply" =>
                camera' = [position |-> << 2414, 2414, 2414 >>, target |-> << 0, 0, 0 >>]
       ]_vars
  /\ [](modelUrl # Null /\ framedUrl = modelUrl => Framed(camera, modelUrl))

C26_Witness ==
  /\ modelUrl = ApiUrl \o "/a1.ply" /\ framedUrl = modelUrl
  /\ camera.position = << 2414, 2414, 2414 >>
  /\ \E k \in Jobs : handled[k] > 0 /\ srvResult[k] = ResMatch

\* C28: in Results the candidate list is not empty and exactly one of its
\* members is active, the one whose six fields are displayed; with an empty
\* candidate list no candidate is active.
C28_ResultsShowActiveCandidate ==
  /\ (mounted /\ step = 4) =>
       /\ Len(candidates) > 0
       /\ Cardinality({i \in 1..Len(candidates) : candidates[i].id = selectedCandidateId}) = 1
       /\ \E i \in 1..Len(candidates) : Shows(candidates[i])
  /\ (mounted /\ candidates = << >>) => selectedCandidateId = NullId

\* The sessions whose POST was accepted, and the latest of them.
Submitted == {k \in Jobs : pc[k] = "polling"}
LatestSubmitted == CHOOSE k \in Submitted : \A j \in Submitted : j <= k

\* C29: at most one status ticker and at most one job poller are active,
\* an active poller is that of the most recently submitted job, and no
\* poller is active without an accepted submission.
C29_OneSession ==
  /\ Cardinality({k \in Jobs : tickActive[k]}) <= 1
  /\ Cardinality({k \in Jobs : pollActive[k]}) <= 1
  /\ \A k \in Jobs : pollActive[k] => (k \in Submitted /\ k = LatestSubmitted)

\* C30: a POST /generate is issued from Review on input that passes the
\* validation of step 1.
C30_PostOnValidInput ==
  [][ (\E k \in Jobs : postCount'[k] > postCount[k]) => ValidateOk ]_vars

====
